---- MODULE Spec2Model ----
(***************************************************************************)
(* A model of warray: Variable and DataArray (src/src/warray), their       *)
(* construction, positional selection (isel, __getitem__), data            *)
(* replacement and dims assignment.  Python objects are records, tuples    *)
(* are sequences, dicts are functions, None is the empty sequence of an    *)
(* optional value, and a raised exception is an outcome record with        *)
(* ok = FALSE.  A NumPy array is a record of its shape and its elements.   *)
(***************************************************************************)
EXTENDS Integers, Sequences, FiniteSets, TLC

\* Bounds of the model: the axes of the receiver of a single call, the
\* elements along an axis.
MaxRank == 2
MaxLen == 2

(***************************************************************************)
(* Optional values, outcomes of calls                                      *)
(***************************************************************************)
NoneV == << >>
Some(x) == << x >>
IsNone(o) == o = << >>

NoVal == [type |-> "NoVal"]
\* A call that returned val.  warned is the set of names the warnings emitted
\* during the call were about (empty: no warning was emitted).
Ok(val) == [ok |-> TRUE, err |-> "", names |-> {}, warned |-> {}, val |-> val]
OkWarned(val, warned) == [ok |-> TRUE, err |-> "", names |-> {}, warned |-> warned, val |-> val]
\* A call that raised: err is the exception class and what it is about,
\* names the dimension names its message carries.
Raise(err, names) == [ok |-> FALSE, err |-> err, names |-> names, warned |-> {}, val |-> NoVal]

\* r, or what F makes of r's value when r returned; the warnings emitted so
\* far stay emitted.
Warn(r, warned) == [r EXCEPT !.warned = @ \cup warned]
Then(r, F(_)) == IF r.ok THEN Warn(F(r.val), r.warned) ELSE r
With(v, F(_)) == F(v)

Range(s) == {s[i] : i \in DOMAIN s}
\* the j-th smallest element of a set of integers, and a sequence cut down to
\* the positions in P
Nth(P, j) == CHOOSE a \in P : Cardinality({b \in P : b <= a}) = j
AtPositions(s, P) == [j \in 1..Cardinality(P) |-> s[Nth(P, j)]]
EmptyMap == [k \in {} |-> 0]
MaxOf(S) == CHOOSE m \in S : \A n \in S : n <= m
MinOf(S) == CHOOSE m \in S : \A n \in S : m <= n

(***************************************************************************)
(* NumPy arrays: shape and elements (index tuples are 0-based)             *)
(***************************************************************************)
Indices(shape) ==
    {idx \in [1..Len(shape) -> 0..MaxOf({0} \cup {shape[a] - 1 : a \in DOMAIN shape})] :
        \A a \in DOMAIN shape : idx[a] < shape[a]}

ndarray(shape, vals) == [type |-> "ndarray", shape |-> shape, vals |-> vals]

RECURSIVE RowMajor(_, _)
RowMajor(idx, shape) ==
    IF Len(idx) = 0 THEN 0
    ELSE RowMajor(SubSeq(idx, 1, Len(idx) - 1), SubSeq(shape, 1, Len(shape) - 1))
             * shape[Len(shape)] + idx[Len(idx)]

\* np.arange(prod(shape)).reshape(shape) + base: every element differs.
arange(shape, base) ==
    ndarray(shape, [idx \in Indices(shape) |-> base + RowMajor(idx, shape)])

(***************************************************************************)
(* Index terms                                                             *)
(***************************************************************************)
PyInt(i) == [kind |-> "int", i |-> i]
NpInt(i) == [kind |-> "np.integer", i |-> i]
Slice(start, stop, step) == [kind |-> "slice", start |-> start, stop |-> stop, step |-> step]
FullSlice == Slice(NoneV, NoneV, NoneV)
Array0d(i) == [kind |-> "ndarray0", i |-> i]
Array1d == [kind |-> "ndarray1"]
Array2d == [kind |-> "ndarray2"]
Variable0d(i) == [kind |-> "Variable0", i |-> i]
Variable1d == [kind |-> "Variable1"]
PyList == [kind |-> "list"]
EllipsisT == [kind |-> "Ellipsis"]

integer_types == {"int", "np.integer"}
BASIC_INDEXING_TYPES == integer_types \cup {"slice"}

\* A slice whose step, when it gives none, is 2
SliceStep_two(s) == IF IsNone(s.step) THEN 2 ELSE s.step[1]

\* slice.indices(n) of Python: the first position, the step and the number of
\* positions a slice with a non-zero step selects on an axis of length n.
SliceStep(s) == IF IsNone(s.step) THEN 1 ELSE s.step[1]
SliceLower(s) == IF SliceStep(s) < 0 THEN -1 ELSE 0
SliceUpper(s, n) == IF SliceStep(s) < 0 THEN n - 1 ELSE n
SliceClamp(s, n, v) ==
    IF v < 0 THEN MaxOf({v + n, SliceLower(s)}) ELSE MinOf({v, SliceUpper(s, n)})
SliceStart(s, n) ==
    IF IsNone(s.start)
    THEN (IF SliceStep(s) < 0 THEN SliceUpper(s, n) ELSE SliceLower(s))
    ELSE SliceClamp(s, n, s.start[1])
SliceStop(s, n) ==
    IF IsNone(s.stop)
    THEN (IF SliceStep(s) < 0 THEN SliceLower(s) ELSE SliceUpper(s, n))
    ELSE SliceClamp(s, n, s.stop[1])
SliceLen(s, n) ==
    LET a == SliceStart(s, n)
        b == SliceStop(s, n)
        st == SliceStep(s)
    IN  IF st > 0
        THEN (IF a < b THEN ((b - a - 1) \div st) + 1 ELSE 0)
        ELSE (IF b < a THEN ((a - b - 1) \div (-st)) + 1 ELSE 0)
\* the positions selected, in order
SlicePositions(s, n) ==
    [k \in 1..SliceLen(s, n) |-> SliceStart(s, n) + (k - 1) * SliceStep(s)]

\* An integer index on an axis of length n: in range iff -n <= i < n.
IntInRange(i, n) == -n <= i /\ i < n
IntPosition(i, n) == IF i < 0 THEN i + n ELSE i

(***************************************************************************)
(* _util.py                                                                *)
(***************************************************************************)
\* A key of __getitem__: a tuple of terms, or one term that is not a tuple.
TupleKey(items) == [kind |-> "tuple", items |-> items]
StrKey(s) == [kind |-> "str", s |-> s]
DictKey(m) == [kind |-> "dict", m |-> m]

Repeat(n, x) == [i \in 1..n |-> x]

RECURSIVE Concat(_)
Concat(ss) == IF Len(ss) = 0 THEN << >> ELSE Head(ss) \o Concat(Tail(ss))

\* An expanded_indexer that pads nothing
expanded_indexer_unpadded(key, ndim) ==
    LET items == IF key.kind = "tuple" THEN key.items ELSE << key >>
        found_ellipsis(i) == \E j \in 1..(i - 1) : items[j] = EllipsisT
        piece(i) ==
            IF items[i] = EllipsisT
            THEN (IF ~found_ellipsis(i)
                  THEN Repeat(ndim + 1 - Len(items), FullSlice)
                  ELSE << FullSlice >>)
            ELSE << items[i] >>
        new_key == Concat([i \in 1..Len(items) |-> piece(i)])
    IN  IF Len(new_key) > ndim
        THEN Raise("IndexError: too many indices", {})
        ELSE Ok(new_key)

\* expanded_indexer(key, ndim): the first Ellipsis becomes ndim + 1 - len(key)
\* full slices (a negative count gives none), a later one becomes one full
\* slice; more than ndim terms raise; the rest is padded with full slices.
expanded_indexer(key, ndim) ==
    LET items == IF key.kind = "tuple" THEN key.items ELSE << key >>
        found_ellipsis(i) == \E j \in 1..(i - 1) : items[j] = EllipsisT
        piece(i) ==
            IF items[i] = EllipsisT
            THEN (IF ~found_ellipsis(i)
                  THEN Repeat(ndim + 1 - Len(items), FullSlice)
                  ELSE << FullSlice >>)
            ELSE << items[i] >>
        new_key == Concat([i \in 1..Len(items) |-> piece(i)])
    IN  IF Len(new_key) > ndim
        THEN Raise("IndexError: too many indices", {})
        ELSE Ok(new_key \o Repeat(ndim - Len(new_key), FullSlice))

\* A positional argument that is a dict, and one that is no Mapping.
DictArg(m) == [kind |-> "dict", m |-> m]
NotAMapping == [kind |-> "list"]

\* An either_dict_or_kwargs that takes the positional argument whenever it is
\* given
either_dict_or_kwargs_positional(pos_kwargs, kw_kwargs) ==
    IF IsNone(pos_kwargs) THEN Ok(kw_kwargs)
    ELSE IF pos_kwargs[1].kind # "dict"
    THEN Raise("ValueError: first argument must be a dictionary", {})
    ELSE Ok(pos_kwargs[1].m)

\* either_dict_or_kwargs(pos_kwargs, kw_kwargs, func_name)
either_dict_or_kwargs(pos_kwargs, kw_kwargs) ==
    IF IsNone(pos_kwargs) \/ pos_kwargs = Some(DictArg(EmptyMap))
    THEN Ok(kw_kwargs)
    ELSE IF pos_kwargs[1].kind # "dict"
    THEN Raise("ValueError: first argument must be a dictionary", {})
    ELSE IF kw_kwargs # EmptyMap
    THEN Raise("ValueError: cannot specify both keyword and positional arguments", {})
    ELSE Ok(pos_kwargs[1].m)

\* is_fancy_indexer(indexer)
is_fancy_indexer(indexer) ==
    IF indexer.kind \in {"int", "slice"} THEN FALSE
    ELSE IF indexer.kind \in {"ndarray0", "ndarray1", "ndarray2"}
    THEN indexer.kind = "ndarray2"
    ELSE IF indexer.kind = "list" THEN FALSE
    ELSE TRUE

Restrict(m, keys) == [k \in (DOMAIN m) \cap keys |-> m[k]]

\* A drop_dims_from_indexers that warns about nothing
drop_dims_from_indexers_silent(indexers, dims, missing_dims) ==
    IF missing_dims = "raise" /\ (DOMAIN indexers) \ Range(dims) # {}
    THEN Raise("ValueError: Dimensions do not exist", (DOMAIN indexers) \ Range(dims))
    ELSE IF missing_dims \in {"raise", "warn", "ignore"}
    THEN Ok(Restrict(indexers, Range(dims)))
    ELSE Raise("ValueError: Unrecognised option for missing_dims argument", {})

\* drop_dims_from_indexers(indexers, dims, missing_dims)
drop_dims_from_indexers(indexers, dims, missing_dims) ==
    LET invalid == (DOMAIN indexers) \ Range(dims)
    IN  IF missing_dims = "raise"
        THEN (IF invalid # {}
              THEN Raise("ValueError: Dimensions do not exist", invalid)
              ELSE Ok(indexers))
        ELSE IF missing_dims = "warn"
        THEN OkWarned(Restrict(indexers, (DOMAIN indexers) \ invalid), invalid)
        ELSE IF missing_dims = "ignore"
        THEN Ok(Restrict(indexers, Range(dims)))
        ELSE Raise("ValueError: Unrecognised option for missing_dims argument", {})

\* A Python list of numbers, as a coordinate's values.
List(items) == [type |-> "list", items |-> items]

\* as_compatible_data(data): the data of a Variable or DataArray, np.asarray
\* of anything else.
as_compatible_data(data) ==
    IF data.type = "Variable" THEN data._data
    ELSE IF data.type = "DataArray" THEN data._variable._data
    ELSE IF data.type = "list"
    THEN ndarray(<< Len(data.items) >>,
                 [idx \in Indices(<< Len(data.items) >>) |-> data.items[idx[1] + 1]])
    ELSE data

(***************************************************************************)
(* _indexing.py                                                            *)
(***************************************************************************)
\* BasicIndexer(key): integers become plain ints, slices stay slices, any
\* other term is a TypeError.
BasicIndexer(key) ==
    IF \E i \in DOMAIN key : key[i].kind \notin BASIC_INDEXING_TYPES
    THEN Raise("TypeError: unexpected indexer type for BasicIndexer", {})
    ELSE Ok([i \in DOMAIN key |->
                IF key[i].kind \in integer_types THEN PyInt(key[i].i) ELSE key[i]])

\* What one normalised term does to an axis of length n.
TermFails(k, n) ==
    IF k.kind = "int" THEN ~IntInRange(k.i, n) ELSE SliceStep(k) = 0
TermError(k) ==
    IF k.kind = "int" THEN "IndexError: index out of bounds"
    ELSE "ValueError: slice step cannot be zero"

\* NumPy's basic indexing array[key]: an integer drops its axis, a slice keeps
\* it; kept is the set of axes the key keeps.
BasicIndexing(array, key, kept) ==
    LET n == Len(array.shape)
        \* the a-th axis of the array is the newAxis(a)-th axis of the result
        newAxis(a) == Cardinality({b \in kept : b <= a})
        source(idx) == [a \in 1..n |->
                          IF key[a].kind = "int"
                          THEN IntPosition(key[a].i, array.shape[a])
                          ELSE SlicePositions(key[a], array.shape[a])[idx[newAxis(a)] + 1]]
    IN  With([j \in 1..Cardinality(kept) |->
                 SliceLen(key[Nth(kept, j)], array.shape[Nth(kept, j)])],
             LAMBDA newShape :
                 ndarray(newShape, [idx \in Indices(newShape) |-> array.vals[source(idx)]]))

\* NumpyIndexingAdapter.__getitem__: array[(*key.tuple, Ellipsis)].  The
\* result is always an array (0-d when every term is an integer).
NumpyIndexingAdapter_getitem(array, key) ==
    With({a \in DOMAIN key : TermFails(key[a], array.shape[a])},
         LAMBDA bad :
             IF bad # {}
             THEN Raise(TermError(key[MinOf(bad)]), {})
             ELSE Ok(BasicIndexing(array, key, {a \in DOMAIN key : key[a].kind = "slice"})))

(***************************************************************************)
(* _variable.py                                                            *)
(***************************************************************************)
ndim(data) == Len(data.shape)

\* A _parse_dimensions that takes any dims, whatever the rank of the data
_parse_dimensions_unchecked(self_ndim, dims) == Ok(dims)

\* Variable._parse_dimensions(dims), for a Variable whose data has self_ndim axes
_parse_dimensions(self_ndim, dims) ==
    IF Len(dims) # self_ndim
    THEN Raise("ValueError: dimensions must have the same length as ndim", {})
    ELSE Ok(dims)

\* Variable.__init__(dims, data): no instance unless the dims parse.  The id
\* of an instance is "new" until the caller binds a name to it.
Variable(dims, data) ==
    Then(_parse_dimensions(ndim(data), dims),
         LAMBDA parsed : Ok([type |-> "Variable", id |-> "new", _dims |-> parsed,
                             _data |-> data]))

\* Variable.dims, Variable.shape
Variable_dims(self) == self._dims
Variable_shape(self) == self._data.shape

\* A _check_shape that compares the ranks only
_check_shape_rank(self, new_data) ==
    IF Len(new_data.shape) # Len(self._data.shape)
    THEN Raise("ValueError: replacement data must match the Variable's shape", {})
    ELSE Ok(NoVal)

\* Variable._check_shape(new_data)
_check_shape(self, new_data) ==
    IF new_data.shape # self._data.shape
    THEN Raise("ValueError: replacement data must match the Variable's shape", {})
    ELSE Ok(NoVal)

\* Variable.data setter: the receiver after the assignment, or the error.
Variable_set_data(self, data) ==
    With(as_compatible_data(data),
         LAMBDA _data : Then(_check_shape(self, _data),
                             LAMBDA none : Ok([self EXCEPT !._data = _data])))

\* Variable.dims setter: the receiver after the assignment, or the error.
Variable_set_dims(self, value) ==
    Then(_parse_dimensions(ndim(self._data), value),
         LAMBDA parsed : Ok([self EXCEPT !._dims = parsed]))

\* Variable.sizes: dict(zip(dims, shape)); a repeated name keeps its last axis.
sizes(dims, shape) ==
    [d \in Range(dims) |-> shape[MaxOf({a \in DOMAIN dims : dims[a] = d})]]

\* A _broadcast_indexes_basic that keeps the name of every axis
_broadcast_indexes_basic_keep(self, key) ==
    Then(BasicIndexer(key), LAMBDA indexer : Ok([dims |-> self._dims, indexer |-> indexer]))

\* Variable._broadcast_indexes_basic(key)
_broadcast_indexes_basic(self, key) ==
    Then(BasicIndexer(key),
         LAMBDA indexer :
             Ok([dims |-> AtPositions(self._dims,
                                      {a \in DOMAIN key : key[a].kind \notin integer_types}),
                 indexer |-> indexer]))

\* A _broadcast_indexes that takes any term it cannot use for a full slice
_broadcast_indexes_fallback(self, key) ==
    LET usable(k) == IF k.kind = "Variable0" \/ k.kind = "ndarray0" THEN PyInt(k.i)
                     ELSE IF k.kind \in BASIC_INDEXING_TYPES THEN k
                     ELSE FullSlice
    IN  Then(expanded_indexer(key, ndim(self._data)),
             LAMBDA expanded :
                 _broadcast_indexes_basic(self, [a \in DOMAIN expanded |-> usable(expanded[a])]))

\* A _broadcast_indexes that leaves a 0-d Variable as it is
_broadcast_indexes_wrapped(self, key) ==
    LET unwrapArray(k) == IF k.kind = "ndarray0" THEN PyInt(k.i) ELSE k
    IN  Then(expanded_indexer(key, ndim(self._data)),
             LAMBDA expanded :
                 With([a \in DOMAIN expanded |-> unwrapArray(expanded[a])],
                      LAMBDA exp_key :
                          IF \A a \in DOMAIN exp_key : exp_key[a].kind \in BASIC_INDEXING_TYPES
                          THEN _broadcast_indexes_basic(self, exp_key)
                          ELSE Raise("NotImplementedError: Cannot yet index with", {})))

\* Variable._broadcast_indexes(key): expand, unwrap a 0-d Variable to its
\* 0-d array and a 0-d array to its item, then basic indexing or nothing.
_broadcast_indexes(self, key) ==
    LET unwrapVariable(k) == IF k.kind = "Variable0" THEN Array0d(k.i) ELSE k
        unwrapArray(k) == IF k.kind = "ndarray0" THEN PyInt(k.i) ELSE k
    IN  Then(expanded_indexer(key, ndim(self._data)),
             LAMBDA expanded :
                 With([a \in DOMAIN expanded |-> unwrapArray(unwrapVariable(expanded[a]))],
                      LAMBDA exp_key :
                          IF \A a \in DOMAIN exp_key : exp_key[a].kind \in BASIC_INDEXING_TYPES
                          THEN _broadcast_indexes_basic(self, exp_key)
                          ELSE Raise("NotImplementedError: Cannot yet index with", {})))

\* Variable._replace(dims, data)
Variable__replace(self, dims, data) == Variable(dims, data)

\* Variable.__getitem__(key), through _finalize_indexing_result
Variable_getitem(self, key) ==
    Then(_broadcast_indexes(self, key),
         LAMBDA b : Then(NumpyIndexingAdapter_getitem(self._data, b.indexer),
                         LAMBDA data : Variable__replace(self, b.dims, data)))

\* A Variable.isel that uses the term of the first of its dimensions the
\* request names, and no other
Variable_isel_first(self, indexers, missing_dims, indexers_kwargs) ==
    Then(either_dict_or_kwargs(indexers, indexers_kwargs),
         LAMBDA either :
             Then(drop_dims_from_indexers(either, self._dims, missing_dims),
                  LAMBDA dropped :
                      Variable_getitem(self,
                          TupleKey([a \in DOMAIN self._dims |->
                                       IF /\ self._dims[a] \in DOMAIN dropped
                                          /\ \A b \in 1..(a - 1) : self._dims[b] \notin DOMAIN dropped
                                       THEN dropped[self._dims[a]] ELSE FullSlice]))))

\* Variable.isel(indexers, missing_dims, **indexers_kwargs)
Variable_isel(self, indexers, missing_dims, indexers_kwargs) ==
    Then(either_dict_or_kwargs(indexers, indexers_kwargs),
         LAMBDA either :
             Then(drop_dims_from_indexers(either, self._dims, missing_dims),
                  LAMBDA dropped :
                      Variable_getitem(self,
                          TupleKey([a \in DOMAIN self._dims |->
                                       IF self._dims[a] \in DOMAIN dropped
                                       THEN dropped[self._dims[a]] ELSE FullSlice]))))

(***************************************************************************)
(* _dataarray.py                                                           *)
(***************************************************************************)
\* The coords argument of DataArray: None, a sequence of per-axis values, or
\* a dict (its keys in insertion order).
NoCoords == [kind |-> "None"]
SeqCoords(items) == [kind |-> "seq", items |-> items]
DictCoords(keys, vals) == [kind |-> "dict", keys |-> keys, vals |-> vals]
\* A coordinate given as a tuple (dims, data)
TupleForm(dims, data) == [type |-> "tuple", dims |-> dims, data |-> data]

\* Coordinates: an ordered mapping from coordinate name to Variable
Coordinates(keys, vars) == [type |-> "Coordinates", keys |-> keys, vars |-> vars]

\* Hashable names that are not strings are written with a leading "#".
NonStrNames == {"#0", "#1"}
str(x) == IF x = "#0" THEN "0" ELSE IF x = "#1" THEN "1" ELSE x

SyntheticNames == << "dim_0", "dim_1", "dim_2", "dim_3" >>

\* as_variable(obj, name)
as_variable(obj, name) ==
    IF obj.type = "Variable" THEN Ok(obj)
    ELSE IF obj.type = "tuple"
    THEN With(Variable(obj.dims, obj.data),
              LAMBDA v : IF v.ok THEN v
                         ELSE Raise("ValueError: Could not convert tuple to Variable", {name}))
    ELSE With(as_compatible_data(obj),
              LAMBDA data :
                  IF Len(data.shape) # 1
                  THEN Raise("ValueError: cannot set variable without explicit dimension names",
                             {name})
                  ELSE Variable(<< name >>, data))

\* A _check_coords_dims that compares no lengths
_check_coords_dims_names(shape, coords, dims) ==
    With({i \in DOMAIN coords.keys :
             \E d \in Range(coords.vars[coords.keys[i]]._dims) : d \notin Range(dims)},
         LAMBDA bad :
             IF bad = {} THEN Ok(NoVal)
             ELSE Raise("ValueError: coordinate dimensions are not a subset of the DataArray dimensions",
                        {coords.keys[MinOf(bad)]}))

\* _check_coords_dims(shape, coords, dims): the first coordinate, in order,
\* with a dimension outside dims or a length that differs from the data's.
_check_coords_dims(shape, coords, dims) ==
    LET notSubset(k) == \E d \in Range(coords.vars[k]._dims) : d \notin Range(dims)
        conflicts(k) ==
            {d \in Range(coords.vars[k]._dims) :
                sizes(coords.vars[k]._dims, coords.vars[k]._data.shape)[d]
                    # sizes(dims, shape)[d]}
    IN  With({i \in DOMAIN coords.keys :
                 notSubset(coords.keys[i]) \/ conflicts(coords.keys[i]) # {}},
             LAMBDA bad :
                 IF bad = {} THEN Ok(NoVal)
                 ELSE IF notSubset(coords.keys[MinOf(bad)])
                 THEN Raise("ValueError: coordinate dimensions are not a subset of the DataArray dimensions",
                            {coords.keys[MinOf(bad)]})
                 ELSE Raise("ValueError: conflicting sizes for dimension",
                            conflicts(coords.keys[MinOf(bad)])))

\* An _infer_coords_and_dims that takes any name for a string
InferDims_anyname(shape, coords, dims) ==
    IF IsNone(dims)
    THEN (IF coords.kind = "dict" /\ Len(coords.keys) = Len(shape)
          THEN Ok(coords.keys)
          ELSE Ok(SubSeq(SyntheticNames, 1, Len(shape))))
    ELSE IF Len(dims[1]) # Len(shape)
    THEN Raise("ValueError: different number of dimensions on data and dims", {})
    ELSE Ok(dims[1])

\* An _infer_coords_and_dims that never takes the names from the coords
InferDims_synthetic(shape, coords, dims) ==
    IF IsNone(dims) THEN Ok(SubSeq(SyntheticNames, 1, Len(shape)))
    ELSE IF Len(dims[1]) # Len(shape)
    THEN Raise("ValueError: different number of dimensions on data and dims", {})
    ELSE Ok(dims[1])

\* _infer_coords_and_dims, lines 332-351: the dims before their names are
\* made strings; dims is None or Some(names).
InferDims(shape, coords, dims) ==
    IF IsNone(dims)
    THEN (IF coords.kind = "dict" /\ Len(coords.keys) = Len(shape)
          THEN Ok(coords.keys)
          ELSE Ok(SubSeq(SyntheticNames, 1, Len(shape))))
    ELSE IF Len(dims[1]) # Len(shape)
    THEN Raise("ValueError: different number of dimensions on data and dims", {})
    ELSE IF \E i \in DOMAIN dims[1] : dims[1][i] \in NonStrNames
    THEN Raise("TypeError: dimension is not a string", {})
    ELSE Ok(dims[1])

\* A dict built from (key, value) pairs in order: a repeated key keeps its
\* first place and its last value.
DictOf(pairs) ==
    With([i \in DOMAIN pairs |-> pairs[i].key],
         LAMBDA ks :
             With(AtPositions(ks, {i \in DOMAIN ks : \A j \in 1..(i - 1) : ks[j] # ks[i]}),
                  LAMBDA keys :
                      [keys |-> keys,
                       vals |-> [k \in Range(keys) |->
                                    pairs[MaxOf({i \in DOMAIN ks : ks[i] = k})].val]]))

\* The outcomes of a loop that stops at the first one that raised.
FirstFailure(outcomes, F(_)) ==
    With({i \in DOMAIN outcomes : ~outcomes[i].ok},
         LAMBDA failed : IF failed # {} THEN outcomes[MinOf(failed)] ELSE F(outcomes))

\* _infer_coords_and_dims, lines 353-366: every coordinate made a Variable
ConvertCoords(coords, dims) ==
    LET PositionalCoord(i) ==
            Then(as_variable(coords.items[i], str(dims[i])),
                 LAMBDA var : Variable_set_dims(var, << dims[i] >>))
        KeyOf(i) == IF coords.kind = "dict" THEN coords.keys[i] ELSE dims[i]
        converted ==
            IF coords.kind = "dict"
            THEN [i \in DOMAIN coords.keys |->
                     as_variable(coords.vals[coords.keys[i]], str(coords.keys[i]))]
            ELSE IF coords.kind = "seq"
            THEN [i \in DOMAIN coords.items |-> PositionalCoord(i)]
            ELSE << >>
    IN  FirstFailure(converted,
            LAMBDA vs :
                With(DictOf([i \in DOMAIN vs |-> [key |-> KeyOf(i), val |-> vs[i].val]]),
                     LAMBDA d : Ok(Coordinates(d.keys, d.vals))))

\* _infer_coords_and_dims(shape, coords, dims)
_infer_coords_and_dims(shape, coords, dims) ==
    IF coords.kind = "seq" /\ Len(coords.items) # Len(shape)
    THEN Raise("ValueError: coords is not dict-like, but its items do not match the dimensions",
               << Len(coords.items), Len(shape) >>)
    ELSE Then(InferDims(shape, coords, dims),
              LAMBDA _dims :
                  Then(ConvertCoords(coords, _dims),
                       LAMBDA new_coords :
                           Then(_check_coords_dims(shape, new_coords, _dims),
                                LAMBDA none :
                                    Ok([coords |-> new_coords,
                                        dims |-> [i \in DOMAIN _dims |-> str(_dims[i])]]))))

\* DataArray.__init__(data, coords, dims, name)
DataArray(data, coords, dims, name) ==
    With(as_compatible_data(data),
         LAMBDA _data :
             Then(_infer_coords_and_dims(_data.shape, coords, dims),
                  LAMBDA inferred :
                      Then(Variable(inferred.dims, _data),
                           LAMBDA _variable :
                               Ok([type |-> "DataArray", id |-> "new",
                                   _variable |-> _variable,
                                   _coords |-> inferred.coords, _dims |-> inferred.dims,
                                   _name |-> IF IsNone(name) /\ data.type = "DataArray"
                                             THEN data._name ELSE name]))))

\* DataArray.variable, DataArray.shape, DataArray.dims, DataArray.sizes
DataArray_variable(self) == self._variable
DataArray_shape(self) == Variable_shape(DataArray_variable(self))
DataArray_dims(self) == self._dims
DataArray_sizes(self) == sizes(DataArray_dims(self), DataArray_shape(self))

\* DataArray.data setter: the receiver after the assignment, or the error.
DataArray_set_data(self, value) ==
    Then(Variable_set_data(DataArray_variable(self), value),
         LAMBDA variable : Ok([self EXCEPT !._variable = variable]))

\* A _replace that updates the receiver and returns it
DataArray__replace_self(self, variable, coords, dims) ==
    Then(DataArray(variable, coords, Some(dims), self._name),
         LAMBDA new : Ok([new EXCEPT !.id = self.id]))

\* DataArray._replace(variable, coords, dims) as isel calls it
DataArray__replace(self, variable, coords, dims) ==
    DataArray(variable, coords, Some(dims), self._name)

\* New dims without any dimension the request has a term for
NewDims_untouched(self, indexers) ==
    AtPositions(self._dims, {a \in DOMAIN self._dims : self._dims[a] \notin DOMAIN indexers})

\* DataArray.isel, lines 239-243: the dims the request does not collapse
NewDims(self, indexers) ==
    AtPositions(self._dims,
                {a \in DOMAIN self._dims :
                    \/ self._dims[a] \notin DOMAIN indexers
                    \/ indexers[self._dims[a]].kind \notin {"int", "np.integer"}})

\* A loop that keeps every coordinate, whatever the drop flag
ResliceCoord_keep(coord_value, indexers, drop) ==
    With(Restrict(indexers, Range(coord_value._dims)),
         LAMBDA coord_indexers :
             IF coord_indexers # EmptyMap
             THEN Variable_isel(coord_value, Some(DictArg(coord_indexers)), "raise", EmptyMap)
             ELSE Ok(coord_value))

\* DataArray.isel, lines 245-257: one coordinate of the loop; val is the
\* coordinate to keep, or NoVal when it is dropped.
ResliceCoord(coord_value, indexers, drop) ==
    With(Restrict(indexers, Range(coord_value._dims)),
         LAMBDA coord_indexers :
             IF coord_indexers # EmptyMap
             THEN Then(Variable_isel(coord_value, Some(DictArg(coord_indexers)), "raise",
                                     EmptyMap),
                       LAMBDA v : IF drop /\ ndim(v._data) = 0 THEN Ok(NoVal) ELSE Ok(v))
             ELSE Ok(coord_value))

\* DataArray.isel, lines 245-257: the coords dict of the result
ResliceCoords(_coords, indexers, drop) ==
    FirstFailure([i \in DOMAIN _coords.keys |->
                     ResliceCoord(_coords.vars[_coords.keys[i]], indexers, drop)],
        LAMBDA vs :
            With(AtPositions(_coords.keys, {i \in DOMAIN vs : vs[i].val # NoVal}),
                 LAMBDA keys :
                     Ok(DictCoords(keys,
                            [k \in Range(keys) |->
                                vs[CHOOSE i \in DOMAIN vs : _coords.keys[i] = k].val]))))

\* DataArray.isel(indexers, drop, missing_dims, **indexers_kwargs)
DataArray_isel(self, indexers, drop, missing_dims, indexers_kwargs) ==
    Then(either_dict_or_kwargs(indexers, indexers_kwargs),
         LAMBDA either :
             IF \E d \in DOMAIN either : is_fancy_indexer(either[d])
             THEN Raise("NotImplementedError: fancy indexing is not yet implemented", {})
             ELSE Then(Variable_isel(self._variable, Some(DictArg(either)), missing_dims,
                                     EmptyMap),
                       LAMBDA variable :
                           Then(ResliceCoords(self._coords, either, drop),
                                LAMBDA coords :
                                    DataArray__replace(self, variable, coords,
                                                       NewDims(self, either)))))

\* DataArray._item_key_to_dict(key): dict(zip(self.dims, expanded key)); a
\* repeated name keeps its last term.
_item_key_to_dict(self, key) ==
    IF key.kind = "dict" THEN Ok(key.m)
    ELSE Then(expanded_indexer(key, ndim(self._variable._data)),
              LAMBDA expanded :
                  Ok([d \in Range(self._dims) |->
                         expanded[MaxOf({a \in DOMAIN self._dims : self._dims[a] = d})]]))

\* DataArray.__getitem__(key)
DataArray_getitem(self, key) ==
    IF key.kind = "str"
    THEN Raise("NotImplementedError: xarray-style indexing not yet implemented", {})
    ELSE Then(_item_key_to_dict(self, key),
              LAMBDA indexers :
                  DataArray_isel(self, Some(DictArg(indexers)), FALSE, "raise", EmptyMap))

\* A call self.isel(*pos, **kw) with drop left out, as Python binds it to the
\* signature of isel: a keyword named after a parameter is that parameter,
\* the other keywords are indexers_kwargs.  pos is no argument or the one
\* positional argument; missing_dims is the value of the parameter when no
\* keyword of kw is named after it.  A term given as indexers is no Mapping;
\* a term given as missing_dims is none of the policies; a term given as drop
\* counts as true unless it is the integer 0.
IselParameters(self) ==
    IF self.type = "DataArray" THEN {"indexers", "drop", "missing_dims"}
    ELSE {"indexers", "missing_dims"}
Truthy(term) == IF term.kind = "int" THEN term.i # 0 ELSE TRUE
NotAPolicy == "a term"
isel_keywords(self, pos, kw, missing_dims) ==
    IF "indexers" \in DOMAIN kw /\ ~IsNone(pos)
    THEN Raise("TypeError: got multiple values for argument", {"indexers"})
    ELSE With([indexers |-> IF "indexers" \in DOMAIN kw THEN Some(NotAMapping) ELSE pos,
               drop |-> IF "drop" \in (DOMAIN kw) \cap IselParameters(self)
                        THEN Truthy(kw["drop"]) ELSE FALSE,
               missing_dims |-> IF "missing_dims" \in DOMAIN kw THEN NotAPolicy
                                ELSE missing_dims,
               indexers_kwargs |-> Restrict(kw, (DOMAIN kw) \ IselParameters(self))],
              LAMBDA bound :
                  IF self.type = "DataArray"
                  THEN DataArray_isel(self, bound.indexers, bound.drop, bound.missing_dims,
                                      bound.indexers_kwargs)
                  ELSE Variable_isel(self, bound.indexers, bound.missing_dims,
                                     bound.indexers_kwargs))

(***************************************************************************)
(* _common.py                                                              *)
(***************************************************************************)
\* What get_axis_num is asked: one name, or an iterable of names
OneName(d) == [kind |-> "name", names |-> << d >>]
ManyNames(ds) == [kind |-> "iterable", names |-> ds]
\* What it returns: an axis number, or a tuple of them
AxisNum(a) == [type |-> "int", val |-> a]
AxisNums(nums) == [type |-> "tuple", items |-> nums]

\* A _raise_if_any_duplicate_dimensions that lets everything pass
_raise_if_any_duplicate_dimensions_pass(dims) == Ok(NoVal)

\* _raise_if_any_duplicate_dimensions(dims)
_raise_if_any_duplicate_dimensions(dims) ==
    IF Cardinality(Range(dims)) < Len(dims)
    THEN Raise("ValueError: cannot handle duplicate dimensions",
               {d \in Range(dims) : Cardinality({a \in DOMAIN dims : dims[a] = d}) > 1})
    ELSE Ok(NoVal)

\* AbstractArray._get_axis_num(dim), on an object with the given dims:
\* dims.index(dim), counted from 0
_get_axis_num(dims, dim) ==
    Then(_raise_if_any_duplicate_dimensions(dims),
         LAMBDA none :
             IF dim \in Range(dims)
             THEN Ok(MinOf({a \in DOMAIN dims : dims[a] = dim}) - 1)
             ELSE Raise("ValueError: not found in array dimensions", {dim}))

\* AbstractArray.get_axis_num(dim); self.dims is the property of the class of
\* self
get_axis_num(self, dim) ==
    With(IF self.type = "DataArray" THEN DataArray_dims(self) ELSE Variable_dims(self),
         LAMBDA dims :
             IF dim.kind = "iterable"
             THEN FirstFailure([i \in DOMAIN dim.names |-> _get_axis_num(dims, dim.names[i])],
                               LAMBDA nums : Ok(AxisNums([i \in DOMAIN nums |-> nums[i].val])))
             ELSE Then(_get_axis_num(dims, dim.names[1]), LAMBDA a : Ok(AxisNum(a))))

(***************************************************************************)
(* The inputs                                                              *)
(***************************************************************************)
DimNames == {"x", "y"}
UnknownDim == "z"

SeqsUpTo(S, n) == UNION {[1..k -> S] : k \in 0..n}
\* The arrays whose life is followed have no more axes than there are names.
LifeRank == Cardinality(DimNames)
Shapes == SeqsUpTo(1..MaxLen, LifeRank)
DimsInputs ==
    {NoneV} \cup {Some(d) : d \in SeqsUpTo(DimNames, LifeRank)}
    \cup {Some(<< n >>) : n \in NonStrNames} \cup {Some(<< "x", n >>) : n \in NonStrNames}
NameInputs == {Some("a")}

\* Coordinate values: a list of n labels; an auxiliary coordinate given as a
\* tuple (dims, data).
Labels(n) == List([i \in 1..n |-> 50 + i])
Scalar == TupleForm(<< >>, arange(<< >>, 70))
Grid(dims, shape) == TupleForm(dims, arange(shape, 80))
KeyOrders == {<< "x" >>, << "s" >>, << "x", "y" >>, << "y", "x" >>, << "x", "y", "s" >>}
CoordsInputs ==
    {NoCoords}
    \cup {SeqCoords([i \in DOMAIN lens |-> Labels(lens[i])]) : lens \in Shapes}
    \cup UNION {{DictCoords(keys, [k \in Range(keys) |-> IF k = "s" THEN aux ELSE Labels(len[k])]) :
                    aux \in {Scalar, Grid(<< "x", "y" >>, << len["x"], len["y"] >>)}} :
                keys \in KeyOrders, len \in [DimNames -> 1..MaxLen]}

\* Index terms
IntInputs == {-1, 0, MaxLen}
SliceBounds == {NoneV, Some(1), Some(-1)}
SliceSteps == {NoneV, Some(-1), Some(0)}
SliceInputs == {Slice(a, b, c) : a \in SliceBounds, b \in SliceBounds, c \in SliceSteps}
BasicTerms == {PyInt(i) : i \in IntInputs} \cup SliceInputs
\* what the 0-dimensional terms hold: the first or the last position
ScalarInputs == {0, -1}
OtherTerms ==
    UNION {{NpInt(i), Array0d(i), Variable0d(i)} : i \in ScalarInputs}
    \cup {PyList, Array1d, Array2d, Variable1d}
Terms == BasicTerms \cup OtherTerms
\* the terms of the requests an object meets in its life: the last element,
\* an index out of range, everything, everything but the first, a list
Last == PyInt(-1)
ButFirst == Slice(Some(1), NoneV, NoneV)
LifeTerms == {Last, PyInt(MaxLen), FullSlice, ButFirst, PyList}
\* the terms of a request with two keys
PairTerms == {Last, ButFirst}
\* the terms an object meets in its life for a dimension it does not have
UnknownTerms == {Last, Array2d}
\* the terms of a single call for a dimension the receiver does not have: one
\* of each kind
KindTerms ==
    {Last, FullSlice, NpInt(0), Array0d(0), Variable0d(0), PyList, Array1d, Array2d, Variable1d}

\* Requests on an object with the given dims: no term, one term for one of
\* its dimensions or for an unknown one, or two terms.
Pairs(S) == {ks \in SUBSET S : Cardinality(ks) = 2}
Requests(dims, terms, unknown) ==
    {EmptyMap}
    \cup {[k \in {d} |-> t] : d \in Range(dims), t \in terms}
    \cup {[k \in {UnknownDim} |-> t] : t \in unknown}
    \cup UNION {[ks -> PairTerms] : ks \in Pairs(Range(dims))}
    \cup {[k \in {d, UnknownDim} |-> IF k = d THEN t ELSE Last] : d \in Range(dims), t \in PairTerms}
Policies == {"raise", "warn", "ignore", "bogus"}
IselArgs(m, drop, missing_dims) ==
    [indexers |-> Some(DictArg(m)), indexers_kwargs |-> EmptyMap,
     drop |-> drop, missing_dims |-> missing_dims]
\* the policy matters to a request that names an unknown dimension, the drop
\* flag to one with an integer term
PoliciesFor(m) == IF UnknownDim \in DOMAIN m \/ m = EmptyMap THEN Policies ELSE {"raise"}
DropsFor(m) == IF \E k \in DOMAIN m : m[k].kind = "int" THEN BOOLEAN ELSE {FALSE}
\* the calls of isel an object meets in its life
IselInputs(dims) ==
    UNION {{IselArgs(m, drop, "raise") : drop \in DropsFor(m)}
           \cup {IselArgs(m, FALSE, p) : p \in PoliciesFor(m)} :
           m \in Requests(dims, LifeTerms, UnknownTerms)}

\* Keys of __getitem__
KeyInputs == {Last, FullSlice, EllipsisT, StrKey("x"),
              TupleKey(<< Last, Last >>),
              TupleKey(<< EllipsisT, Last >>),
              TupleKey(<< Last, FullSlice, FullSlice >>),
              DictKey([k \in {"x"} |-> Last])}

\* Replacement data: a fresh array of the shape the object has, of that shape
\* transposed, or of MaxLen elements along each of its axes
Transposed(shape) == [i \in DOMAIN shape |-> shape[Len(shape) + 1 - i]]
DataInputs(shape) ==
    {arange(sh, 0) : sh \in {shape, Transposed(shape)} \cup {[i \in 1..k |-> MaxLen] : k \in 0..LifeRank}}

\* The receivers of single calls: an array of any shape, axes of length 0
\* included, with no coordinate or with a coordinate for each of its
\* dimensions, a scalar coordinate "s" and a coordinate "t" over all its axes.
ReceiverShapes == SeqsUpTo(0..MaxLen, MaxRank)
Distinct(dims) == AtPositions(dims, {a \in DOMAIN dims : \A b \in 1..(a - 1) : dims[b] # dims[a]})
AllCoords(dims, shape) ==
    DictCoords(Distinct(dims) \o << "s", "t" >>,
               [k \in Range(dims) \cup {"s", "t"} |->
                   IF k = "s" THEN Scalar
                   ELSE IF k = "t" THEN Grid(dims, shape)
                   ELSE Labels(sizes(dims, shape)[k])])

(***************************************************************************)
(* The state: one DataArray the caller holds, and the call in progress     *)
(***************************************************************************)
VARIABLES da, call
vars == << da, call >>

NoArgs == [type |-> "NoArgs"]
Idle == [op |-> "idle", self |-> NoVal, args |-> NoArgs, res |-> Ok(NoVal)]
Call(op, self, args, res) == [op |-> op, self |-> self, args |-> args, res |-> res]

\* da = <a DataArray a call made>: the instance and its Variable are bound.
Bind(obj) == [obj EXCEPT !.id = "bound", !._variable.id = "bound"]

\* The state after da = DataArray(data, coords, dims, name) returned or raised.
Constructed(args) ==
    With(DataArray(args.data, args.coords, args.dims, args.name),
         LAMBDA res : /\ call = Call("DataArray", NoVal, args, res)
                      /\ da = IF res.ok THEN Bind(res.val) ELSE NoVal)

Init ==
    \E sh \in Shapes, coords \in CoordsInputs, dims \in DimsInputs, name \in NameInputs :
        Constructed([data |-> arange(sh, 0), coords |-> coords, dims |-> dims, name |-> name])

HasObject == da.type = "DataArray"
Ready == HasObject /\ call.op = "idle"

\* da.isel(indexers, drop=drop, missing_dims=missing_dims)
IselCall(args) ==
    Call("DataArray.isel", da, args,
         DataArray_isel(da, args.indexers, args.drop, args.missing_dims, args.indexers_kwargs))

\* da.variable.isel(indexers, missing_dims=missing_dims)
VariableIselCall(args) ==
    Call("Variable.isel", DataArray_variable(da), args,
         Variable_isel(DataArray_variable(da), args.indexers, args.missing_dims,
                       args.indexers_kwargs))

Isel ==
    /\ Ready
    /\ \E args \in IselInputs(da._dims) : call' = IselCall(args)
    /\ UNCHANGED da

\* da[key]
GetItem ==
    /\ Ready
    /\ \E key \in KeyInputs :
          call' = Call("DataArray.__getitem__", da, [key |-> key], DataArray_getitem(da, key))
    /\ UNCHANGED da

\* da.data = value
SetData ==
    /\ Ready
    /\ \E value \in DataInputs(DataArray_shape(da)) :
          With(DataArray_set_data(da, value),
               LAMBDA res :
                   /\ call' = Call("DataArray.data=", da, [value |-> value], res)
                   /\ da' = IF res.ok THEN res.val ELSE da)

\* da = <the DataArray the call returned>
Rebind ==
    /\ call.op \in {"DataArray.isel", "DataArray.__getitem__"}
    /\ call.res.ok
    /\ da' = Bind(call.res.val)
    /\ call' = Idle

\* the caller drops the result and goes on
Return ==
    /\ HasObject
    /\ call.op # "idle"
    /\ call' = Idle
    /\ UNCHANGED da

Next == Isel \/ GetItem \/ SetData \/ Rebind \/ Return

\* The life of a DataArray under its public operations
Spec == Init /\ [][Next]_vars

(***************************************************************************)
(* The same life with the Variable of the DataArray in the caller's hands  *)
(***************************************************************************)
\* The dims assigned to a Variable: its dims in reverse order, its dims with
\* every name replaced by one, dims too short and dims too long
DimsValues(dims) ==
    {Transposed(dims), Tail(dims \o << "x" >>), dims \o << "y" >>}
    \cup {[a \in DOMAIN dims |-> d] : d \in DimNames}

\* da.variable.dims = value
SetVariableDims ==
    /\ Ready
    /\ \E value \in DimsValues(Variable_dims(DataArray_variable(da))) :
          With(Variable_set_dims(DataArray_variable(da), value),
               LAMBDA res :
                   /\ call' = Call("Variable.dims=", DataArray_variable(da),
                                   [value |-> value], res)
                   /\ da' = IF res.ok THEN [da EXCEPT !._variable = res.val] ELSE da)

\* Variable(dims, da.data)
NewVariable ==
    /\ Ready
    /\ \E dims \in DimsValues(Variable_dims(DataArray_variable(da))) :
          call' = Call("Variable", NoVal,
                       [dims |-> dims, data |-> DataArray_variable(da)._data],
                       Variable(dims, DataArray_variable(da)._data))
    /\ UNCHANGED da

NextVariable == Isel \/ SetData \/ SetVariableDims \/ NewVariable \/ Rebind \/ Return

SpecVariable == Init /\ [][NextVariable]_vars

(***************************************************************************)
(* One call of isel or __getitem__ on a receiver, with any of the terms    *)
(***************************************************************************)
InitCalls ==
    \E sh \in ReceiverShapes :
        \E dims \in [DOMAIN sh -> DimNames] :
            \E coords \in {NoCoords, AllCoords(dims, sh)} :
                With(DataArray(arange(sh, 0), coords, Some(dims), Some("a")),
                     LAMBDA res : /\ res.ok
                                  /\ da = Bind(res.val)
                                  /\ call = Idle)

IselAny ==
    /\ Ready
    /\ \E m \in Requests(da._dims, Terms, KindTerms), drop \in BOOLEAN :
          \E missing_dims \in PoliciesFor(m) :
              call' = IselCall(IselArgs(m, drop, missing_dims))
    /\ UNCHANGED da

VariableIsel ==
    /\ Ready
    /\ \E m \in Requests(DataArray_variable(da)._dims, Terms, KindTerms) :
          \E missing_dims \in PoliciesFor(m) :
              call' = VariableIselCall(IselArgs(m, FALSE, missing_dims))
    /\ UNCHANGED da

\* What get_axis_num is asked: a name the receiver may have, a name it has
\* not, no name at all, several names
AxisInputs ==
    {OneName(d) : d \in DimNames \cup {UnknownDim}}
    \cup {ManyNames(ds) : ds \in {<< >>, << "x" >>, << "x", "y" >>, << "y", "x" >>,
                                   << "x", "x" >>, << UnknownDim, "x" >>, << "x", UnknownDim >>}}

\* da.get_axis_num(dim), da.variable.get_axis_num(dim)
GetAxisNum ==
    /\ Ready
    /\ \E self \in {da, DataArray_variable(da)}, dim \in AxisInputs :
          call' = Call("get_axis_num", self, [dim |-> dim], get_axis_num(self, dim))
    /\ UNCHANGED da

\* The forms of a call of isel with keyword indexers: keywords alone or after
\* an empty dict, among them keywords named after the parameters of
\* DataArray.isel; a dict and keywords; something that is no dict
ParameterNames == {"indexers", "drop", "missing_dims"}
KeywordRequests(dims) ==
    Requests(dims, PairTerms, {Last}) \cup {[k \in {p} |-> Last] : p \in ParameterNames}
OneTerm(dims) == {[k \in {d} |-> Last] : d \in Range(dims) \cup {UnknownDim, "drop"}}
FormInputs(dims) ==
    {[pos |-> pos, kw |-> kw] :
        pos \in {NoneV, Some(DictArg(EmptyMap))}, kw \in KeywordRequests(dims)}
    \cup {[pos |-> Some(DictArg(m)), kw |-> kw] :
             m \in OneTerm(dims), kw \in OneTerm(dims) \cup {EmptyMap}}
    \cup {[pos |-> Some(NotAMapping), kw |-> kw] : kw \in OneTerm(dims) \cup {EmptyMap}}
FormPolicies(kw) == IF UnknownDim \in DOMAIN kw THEN {"raise", "warn"} ELSE {"raise"}

\* da.isel(*pos, **kw, missing_dims=...), da.variable.isel(*pos, **kw, missing_dims=...)
IselKeywords ==
    /\ Ready
    /\ \E self \in {da, DataArray_variable(da)} :
          \E form \in FormInputs(self._dims) :
              \E missing_dims \in FormPolicies(form.kw) :
                  call' = Call("isel(**kwargs)", self,
                               [pos |-> form.pos, kw |-> form.kw, missing_dims |-> missing_dims],
                               isel_keywords(self, form.pos, form.kw, missing_dims))
    /\ UNCHANGED da

NextCalls == IselAny \/ VariableIsel \/ GetItem \/ GetAxisNum \/ IselKeywords

SpecCalls == InitCalls /\ [][NextCalls]_vars

(***************************************************************************)
(* expanded_indexer applied to a key and a number of dimensions            *)
(***************************************************************************)
\* Keys: a term that is no tuple, or a tuple of up to MaxRank + 1 terms, each
\* an integer, a slice or Ellipsis
ExpandTerms == {Last, ButFirst, EllipsisT}
ExpandKeys == ExpandTerms \cup {TupleKey(items) : items \in SeqsUpTo(ExpandTerms, MaxRank + 1)}

InitExpand == da = NoVal /\ call = Idle

\* expanded_indexer(key, ndim)
Expand ==
    /\ call.op = "idle"
    /\ \E key \in ExpandKeys, n \in 0..MaxRank :
          call' = Call("expanded_indexer", NoVal, [key |-> key, ndim |-> n],
                       expanded_indexer(key, n))
    /\ UNCHANGED da

NextExpand == Expand

SpecExpand == InitExpand /\ [][NextExpand]_vars

(***************************************************************************)
(* Two terms for two dimensions: one call after the other, or one call     *)
(***************************************************************************)
\* v.isel(m, drop=drop) on a DataArray, v.isel(m) on a Variable
IselOn(v, m, drop) ==
    IF v.type = "DataArray"
    THEN DataArray_isel(v, Some(DictArg(m)), drop, "raise", EmptyMap)
    ELSE Variable_isel(v, Some(DictArg(m)), "raise", EmptyMap)

\* v.isel(m1).isel(m2)
IselIsel(v, m1, m2, drop) == Then(IselOn(v, m1, drop), LAMBDA w : IselOn(w, m2, drop))

\* the terms: the first and the last position, everything, everything but
\* the first, everything in reverse
ComposeTerms == {PyInt(0), Last, FullSlice, ButFirst, Slice(NoneV, NoneV, Some(-1))}
DropFlags(v) == IF v.type = "DataArray" THEN BOOLEAN ELSE {FALSE}

\* the three ways to ask v for t1 along d1 and t2 along d2
Routes(v, d1, t1, d2, t2, drop) ==
    [type |-> "Routes",
     d1_d2 |-> IselIsel(v, d1 :> t1, d2 :> t2, drop),
     d2_d1 |-> IselIsel(v, d2 :> t2, d1 :> t1, drop),
     both |-> IselOn(v, (d1 :> t1) @@ (d2 :> t2), drop)]

\* v.isel({d1: t1}).isel({d2: t2}), v.isel({d2: t2}).isel({d1: t1}) and
\* v.isel({d1: t1, d2: t2}) for two dimensions of v, each taken at the
\* first axis of its name
IselTwice ==
    /\ Ready
    /\ \E self \in {da, DataArray_variable(da)} :
          \E a \in DOMAIN self._dims, b \in DOMAIN self._dims :
              /\ a < b
              /\ self._dims[a] # self._dims[b]
              /\ \A c \in 1..(b - 1) : c # a => self._dims[c] \notin {self._dims[a], self._dims[b]}
              /\ \E t1 \in ComposeTerms, t2 \in ComposeTerms, drop \in DropFlags(self) :
                    call' = Call("isel.isel", self,
                                 [d1 |-> self._dims[a], t1 |-> t1,
                                  d2 |-> self._dims[b], t2 |-> t2, drop |-> drop],
                                 Ok(Routes(self, self._dims[a], t1, self._dims[b], t2, drop)))
    /\ UNCHANGED da

NextCompose == IselTwice

SpecCompose == InitCalls /\ [][NextCompose]_vars

(***************************************************************************)
(* The dict objects of a call of isel                                      *)
(***************************************************************************)
\* The dicts of a call are objects: objs maps each object that exists to its
\* items.  "caller" is the dict the caller passed, "kwargs" the dict Python
\* builds for **indexers_kwargs, "copy" the dict(indexers) of the "warn"
\* branch and "new" the dict the "ignore" branch builds.  An operation gives
\* the objects after it and its outcome, whose value is the object returned.
Dicts(m) == ("caller" :> m) @@ ("kwargs" :> EmptyMap)
Gives(objs, res) == [objs |-> objs, res |-> res]
\* dict(indexers)
dict_copy(objs, ref) == ("copy" :> objs[ref]) @@ objs
\* for key in keys: indexers.pop(key)
dict_pop(objs, ref, keys) == [objs EXCEPT ![ref] = Restrict(@, (DOMAIN @) \ keys)]

\* either_dict_or_kwargs(pos_kwargs, kw_kwargs) when pos_kwargs is a dict:
\* the object returned
either_dict_or_kwargs_objects(objs, pos_kwargs, kw_kwargs) ==
    IF objs[pos_kwargs] = EmptyMap THEN Ok(kw_kwargs)
    ELSE IF objs[kw_kwargs] # EmptyMap
    THEN Raise("ValueError: cannot specify both keyword and positional arguments", {})
    ELSE Ok(pos_kwargs)

\* A "warn" branch that pops from the dict it was given
drop_dims_from_indexers_inplace(objs, indexers, dims, missing_dims) ==
    With((DOMAIN objs[indexers]) \ Range(dims),
         LAMBDA invalid :
             IF missing_dims = "raise"
             THEN (IF invalid # {}
                   THEN Gives(objs, Raise("ValueError: Dimensions do not exist", invalid))
                   ELSE Gives(objs, Ok(indexers)))
             ELSE IF missing_dims = "warn"
             THEN Gives(dict_pop(objs, indexers, invalid), OkWarned(indexers, invalid))
             ELSE IF missing_dims = "ignore"
             THEN Gives(("new" :> Restrict(objs[indexers], Range(dims))) @@ objs, Ok("new"))
             ELSE Gives(objs, Raise("ValueError: Unrecognised option for missing_dims argument",
                                    {})))

\* drop_dims_from_indexers(indexers, dims, missing_dims) on objects: "raise"
\* returns the dict it was given, "warn" copies it and pops from the copy,
\* "ignore" builds a dict
drop_dims_from_indexers_objects(objs, indexers, dims, missing_dims) ==
    With((DOMAIN objs[indexers]) \ Range(dims),
         LAMBDA invalid :
             IF missing_dims = "raise"
             THEN (IF invalid # {}
                   THEN Gives(objs, Raise("ValueError: Dimensions do not exist", invalid))
                   ELSE Gives(objs, Ok(indexers)))
             ELSE IF missing_dims = "warn"
             THEN Gives(dict_pop(dict_copy(objs, indexers), "copy", invalid),
                        OkWarned("copy", invalid))
             ELSE IF missing_dims = "ignore"
             THEN Gives(("new" :> Restrict(objs[indexers], Range(dims))) @@ objs, Ok("new"))
             ELSE Gives(objs, Raise("ValueError: Unrecognised option for missing_dims argument",
                                    {})))

\* Variable.isel(indexers, missing_dims) on objects, up to the dict the key
\* is read from (lines 155-157); the key and the indexing only read
Variable_isel_objects(objs, self, indexers, missing_dims) ==
    With(either_dict_or_kwargs_objects(objs, indexers, "kwargs"),
         LAMBDA either :
             IF either.ok
             THEN drop_dims_from_indexers_objects(objs, either.val, self._dims, missing_dims)
             ELSE Gives(objs, either))

\* DataArray.isel(indexers, missing_dims) on objects: the test for fancy
\* terms, new_dims and the loop over the coordinates only read indexers; a
\* coordinate is given a dict of its own, under "raise"
DataArray_isel_objects(objs, self, indexers, missing_dims) ==
    With(either_dict_or_kwargs_objects(objs, indexers, "kwargs"),
         LAMBDA either :
             IF ~either.ok THEN Gives(objs, either)
             ELSE IF \E d \in DOMAIN objs[either.val] : is_fancy_indexer(objs[either.val][d])
             THEN Gives(objs, Raise("NotImplementedError: fancy indexing is not yet implemented",
                                    {}))
             ELSE Variable_isel_objects(objs, self._variable, either.val, missing_dims))

\* v.isel(m, drop=drop, missing_dims=missing_dims) with m the caller's dict:
\* what the call returns or raises, the dict objects after it and the
\* object the key of the Variable was read from
IselCaller(v, m, drop, missing_dims) ==
    [type |-> "Effect",
     result |-> IF v.type = "DataArray"
                THEN DataArray_isel(v, Some(DictArg(m)), drop, missing_dims, EmptyMap)
                ELSE Variable_isel(v, Some(DictArg(m)), missing_dims, EmptyMap),
     dicts |-> IF v.type = "DataArray"
               THEN DataArray_isel_objects(Dicts(m), v, "caller", missing_dims)
               ELSE Variable_isel_objects(Dicts(m), v, "caller", missing_dims)]

\* the terms of the caller's dict: a position, a slice, a 1-d and a 2-d array
MappingTerms == {Last, ButFirst, Array1d, Array2d}

\* m = {...}; v.isel(m, drop=drop, missing_dims=missing_dims)
IselMapping ==
    /\ Ready
    /\ \E self \in {da, DataArray_variable(da)} :
          \E m \in Requests(self._dims, MappingTerms, MappingTerms),
             missing_dims \in Policies, drop \in DropFlags(self) :
              call' = Call("isel(m)", self,
                           IselArgs(m, drop, missing_dims),
                           Ok(IselCaller(self, m, drop, missing_dims)))
    /\ UNCHANGED da

NextMapping == IselMapping

SpecMapping == InitCalls /\ [][NextMapping]_vars

(***************************************************************************)
(* The properties                                                          *)
(***************************************************************************)
IsObject(v) == v.type \in {"Variable", "DataArray"}
DimsOf(v) == IF v.type = "DataArray" THEN DataArray_dims(v) ELSE Variable_dims(v)
ShapeOf(v) == IF v.type = "DataArray" THEN DataArray_shape(v) ELSE Variable_shape(v)
DataOf(v) == IF v.type = "DataArray" THEN DataArray_variable(v)._data ELSE v._data
CoordNames(a) == a._coords.keys
Coord(a, k) == a._coords.vars[k]

\* a DataArray, its Variable and its coordinates; a Variable
PartsOf(v) ==
    IF v.type = "DataArray"
    THEN {v, DataArray_variable(v)} \cup {Coord(v, k) : k \in Range(CoordNames(v))}
    ELSE IF v.type = "Variable" THEN {v} ELSE {}
\* every Variable and DataArray of the state: what the caller holds, the
\* receiver of the call and what the call returned
Objects == PartsOf(da) \cup PartsOf(call.self) \cup PartsOf(call.res.val)

RankOK(v) == Len(DimsOf(v)) = Len(ShapeOf(v))

\* C1: every Variable and DataArray has as many dims as its data has axes; a
\* construction with dims of another length raises and makes no instance, an
\* assignment of dims of another length raises and leaves the dims as they
\* were.
C1_RankInvariant ==
    /\ \A v \in Objects : RankOK(v)
    /\ (call.op = "Variable" /\ Len(call.args.dims) # ndim(call.args.data))
          => ~call.res.ok /\ ~IsObject(call.res.val)
    /\ (call.op = "DataArray" /\ ~IsNone(call.args.dims)
          /\ Len(call.args.dims[1]) # ndim(call.args.data))
          => ~call.res.ok /\ ~IsObject(call.res.val) /\ ~IsObject(da)
    /\ (call.op = "Variable.dims=" /\ Len(call.args.value) # Len(ShapeOf(call.self)))
          => ~call.res.ok /\ DataArray_variable(da) = call.self

\* C1: dims of the right length were assigned to the Variable of a DataArray
\* of full rank that selections had emptied along an axis, and took effect.
C1_Witness ==
    /\ call.op = "Variable.dims="
    /\ call.res.ok
    /\ Len(call.args.value) = LifeRank
    /\ Variable_dims(DataArray_variable(da)) = call.args.value
    /\ Variable_dims(call.self) # call.args.value
    /\ \E a \in DOMAIN ShapeOf(da) : ShapeOf(da)[a] = 0

\* C2: the dims and the shape of a DataArray are those of its Variable.
C2_DimsAgree ==
    HasObject => /\ DataArray_dims(da) = Variable_dims(DataArray_variable(da))
                 /\ DataArray_shape(da) = Variable_shape(DataArray_variable(da))

(***************************************************************************)
(* One call of isel: its receiver, its request, its result                 *)
(***************************************************************************)
IsIsel == call.op \in {"DataArray.isel", "Variable.isel"}
Request == call.args.indexers[1].m
Policy == call.args.missing_dims
Returned == call.res.val
\* the dimensions the request has the given term for, the receiver having it
Asks(d, term) == IsIsel /\ Request = (d :> term) /\ d \in Range(DimsOf(call.self))
\* the axes of v named d, and the others
AxesOf(v, d) == {a \in DOMAIN DimsOf(v) : DimsOf(v)[a] = d}
OtherAxes(v, d) == (DOMAIN DimsOf(v)) \ AxesOf(v, d)

\* the sub-tensor of an array at index 0 along the axes in removed
SubTensor0(array, removed) ==
    LET kept == (DOMAIN array.shape) \ removed
        shape == AtPositions(array.shape, kept)
    IN  ndarray(shape,
                [idx \in Indices(shape) |->
                    array.vals[[a \in DOMAIN array.shape |->
                                   IF a \in removed THEN 0
                                   ELSE idx[Cardinality({b \in kept : b <= a})]]]])

\* C3: isel({d: 0}) on a Variable or DataArray whose axes named d have at
\* least one element returns; the result has the dims of the receiver without
\* d, in their order, and its data is the sub-tensor at index 0 along d: the
\* shape without the axes of d, the values at index 0.
C3_IntegerCollapse ==
    \A d \in DimNames :
        (Asks(d, PyInt(0)) /\ \A a \in AxesOf(call.self, d) : ShapeOf(call.self)[a] >= 1)
        => /\ call.res.ok
           /\ DimsOf(Returned) = AtPositions(DimsOf(call.self), OtherAxes(call.self, d))
           /\ ShapeOf(Returned) = AtPositions(ShapeOf(call.self), OtherAxes(call.self, d))
           /\ DataOf(Returned) = SubTensor0(DataOf(call.self), AxesOf(call.self, d))

\* C3: the first of two axes of MaxLen elements of a DataArray with
\* coordinates was collapsed at index 0.
C3_Witness ==
    /\ call.op = "DataArray.isel"
    /\ Asks("x", PyInt(0))
    /\ DimsOf(call.self) = << "x", "y" >>
    /\ ShapeOf(call.self) = << MaxLen, MaxLen >>
    /\ CoordNames(call.self) # << >>
    /\ call.res.ok
    /\ DimsOf(Returned) = << "y" >>

\* what C4 says of the result of a slice along d
RankPreserved(d) ==
    /\ call.res.ok
    /\ DimsOf(Returned) = DimsOf(call.self)
    /\ Len(ShapeOf(Returned)) = Len(ShapeOf(call.self))
    /\ \A a \in OtherAxes(call.self, d) : ShapeOf(Returned)[a] = ShapeOf(call.self)[a]

\* C4 as stated: isel({d: s}) with any slice s returns a result with the dims
\* of the receiver and a shape that differs at most along d.
C4_AnySlice ==
    \A d \in DimNames, s \in SliceInputs : Asks(d, s) => RankPreserved(d)

\* C4: isel({d: s}) with a slice s whose step is not 0, be its start, stop and
\* step what they may and the selection empty or not, returns a result with
\* the dims of the receiver and a shape that differs at most along d; a slice
\* whose step is 0 makes isel raise ValueError.
C4_SlicePreservesRank ==
    \A d \in DimNames, s \in SliceInputs :
        Asks(d, s) => IF SliceStep(s) # 0 THEN RankPreserved(d)
                      ELSE ~call.res.ok /\ call.res.err = "ValueError: slice step cannot be zero"

\* C4: a slice with a negative step selected nothing along an axis of MaxLen
\* elements of a DataArray with coordinates.
C4_Witness ==
    /\ call.op = "DataArray.isel"
    /\ \E s \in SliceInputs : Asks("y", s) /\ SliceStep(s) < 0
    /\ DimsOf(call.self) = << "x", "y" >>
    /\ ShapeOf(call.self) = << MaxLen, MaxLen >>
    /\ CoordNames(call.self) # << >>
    /\ call.res.ok
    /\ ShapeOf(Returned) = << MaxLen, 0 >>

\* the same call on what the call returned
Again ==
    IF call.op = "DataArray.isel"
    THEN DataArray_isel(Returned, call.args.indexers, call.args.drop, Policy,
                        call.args.indexers_kwargs)
    ELSE Variable_isel(Returned, call.args.indexers, Policy, call.args.indexers_kwargs)

SameCoords(a, b) ==
    /\ CoordNames(a) = CoordNames(b)
    /\ \A k \in Range(CoordNames(a)) :
          /\ DimsOf(Coord(a, k)) = DimsOf(Coord(b, k))
          /\ ShapeOf(Coord(a, k)) = ShapeOf(Coord(b, k))

\* C5: isel({d: slice(None)}) returns a result with the dims, the shape and
\* the values of the receiver and, for a DataArray, its coordinate names, each
\* with the same dims and shape; the same call on the result returns the same
\* again.
C5_FullSlice ==
    \A d \in DimNames :
        Asks(d, FullSlice)
        => /\ call.res.ok
           /\ DimsOf(Returned) = DimsOf(call.self)
           /\ ShapeOf(Returned) = ShapeOf(call.self)
           /\ DataOf(Returned).vals = DataOf(call.self).vals
           /\ call.op = "DataArray.isel" => SameCoords(Returned, call.self)
           /\ Again = call.res

\* C5: the full slice was applied to a DataArray of full rank with a
\* coordinate over all its axes.
C5_Witness ==
    /\ call.op = "DataArray.isel"
    /\ Asks("y", FullSlice)
    /\ ShapeOf(call.self) = << MaxLen, MaxLen >>
    /\ "t" \in Range(CoordNames(call.self))
    /\ call.res.ok
    /\ ShapeOf(Coord(Returned, "t")) = << MaxLen, MaxLen >>

\* the coordinates of a DataArray name dimensions of the DataArray only, and
\* are as long along each as the DataArray is
CoordsConsistent(a) ==
    \A k \in Range(CoordNames(a)) :
        /\ Range(DimsOf(Coord(a, k))) \subseteq Range(DataArray_dims(a))
        /\ \A d \in Range(DimsOf(Coord(a, k))) :
              sizes(DimsOf(Coord(a, k)), ShapeOf(Coord(a, k)))[d] = DataArray_sizes(a)[d]

\* C6: the DataArray a construction made, and every DataArray that isel and
\* __getitem__ make of it in turn, has coordinates whose dimension names are
\* dims of the DataArray and whose length along each is the length of the
\* DataArray along it.
C6_CoordinateSet ==
    /\ HasObject => CoordsConsistent(da)
    /\ Returned.type = "DataArray" => CoordsConsistent(Returned)

\* C6: a slice shortened a DataArray along x; its coordinate x came out as
\* long as the result is along x, shorter than it was.
C6_Witness ==
    /\ call.op = "DataArray.isel"
    /\ call.res.ok
    /\ "x" \in DOMAIN Request
    /\ Request["x"] = ButFirst
    /\ "x" \in Range(CoordNames(Returned))
    /\ ShapeOf(Coord(Returned, "x")) # ShapeOf(Coord(call.self, "x"))
    /\ ShapeOf(Coord(Returned, "x")) = << DataArray_sizes(Returned)["x"] >>
    /\ Len(DimsOf(Returned)) = LifeRank

\* the names the request has that the receiver has not, and the request
\* without them
UnknownNames == (DOMAIN Request) \ Range(DimsOf(call.self))
KnownRequest == Restrict(Request, Range(DimsOf(call.self)))
\* the result of the call with another request or another policy
IselOf(m, missing_dims) ==
    IF call.op = "DataArray.isel"
    THEN DataArray_isel(call.self, Some(DictArg(m)), call.args.drop, missing_dims, EmptyMap)
    ELSE Variable_isel(call.self, Some(DictArg(m)), missing_dims, EmptyMap)

\* what C7 says of a call whose request names unknown dimensions
MissingDimsPolicy ==
    IF Policy = "raise"
    THEN /\ ~call.res.ok
         /\ call.res.err = "ValueError: Dimensions do not exist"
         /\ call.res.names = UnknownNames
    ELSE IF Policy = "ignore"
    THEN /\ call.res.warned = {}
         /\ call.res = IselOf(KnownRequest, "ignore")
         /\ KnownRequest = EmptyMap => /\ call.res.ok
                                       /\ DimsOf(Returned) = DimsOf(call.self)
                                       /\ ShapeOf(Returned) = ShapeOf(call.self)
    ELSE IF Policy = "warn"
    THEN /\ call.res.warned = UnknownNames
         /\ [call.res EXCEPT !.warned = {}] = IselOf(Request, "ignore")
    ELSE /\ ~call.res.ok
         /\ call.res.err = "ValueError: Unrecognised option for missing_dims argument"

RejectedAsFancy ==
    /\ call.op = "DataArray.isel"
    /\ \E k \in DOMAIN Request : is_fancy_indexer(Request[k])

Touched(c) == \E d \in Range(DimsOf(c)) : d \in DOMAIN Request
AllCollapsed(c) ==
    \A a \in DOMAIN DimsOf(c) : /\ DimsOf(c)[a] \in DOMAIN Request
                                /\ Request[DimsOf(c)[a]].kind = "int"
Omitted(c) == call.args.drop /\ Touched(c) /\ AllCollapsed(c)

\* C8: a DataArray.isel that returns keeps, without drop, every coordinate
\* name of the receiver, in order, those whose dimensions all got an integer
\* as coordinates of 0 dimensions; with drop it omits exactly the coordinates
\* the request has a term for that are re-sliced to 0 dimensions; a coordinate
\* the request has no term for is kept as it is.
C8_DropFlag ==
    (call.op = "DataArray.isel" /\ call.res.ok)
    => /\ CoordNames(Returned) =
              AtPositions(CoordNames(call.self),
                          {i \in DOMAIN CoordNames(call.self) :
                              ~Omitted(Coord(call.self, CoordNames(call.self)[i]))})
       /\ \A k \in Range(CoordNames(Returned)) :
              /\ ~Touched(Coord(call.self, k)) => Coord(Returned, k) = Coord(call.self, k)
              /\ (Touched(Coord(call.self, k)) /\ AllCollapsed(Coord(call.self, k)))
                    => DimsOf(Coord(Returned, k)) = << >>

\* C8: with drop, the coordinate x of a DataArray was omitted, its scalar
\* coordinate s and its coordinate t, still of one dimension, were kept.
C8_Witness ==
    /\ call.op = "DataArray.isel"
    /\ call.args.drop
    /\ call.res.ok
    /\ CoordNames(call.self) = << "x", "y", "s", "t" >>
    /\ CoordNames(Returned) = << "y", "s", "t" >>
    /\ DimsOf(Coord(Returned, "t")) = << "y" >>

\* the receiver of the call as the caller sees it after the call
ReceiverNow == IF call.op = "Variable.isel" THEN DataArray_variable(da) ELSE da

\* C9: after Variable.isel, DataArray.isel or DataArray.__getitem__ returned or
\* raised, the receiver is what it was when the call was made (its dims,
\* shape, name, coordinates and all), and what the call returned is an
\* instance of its own.
C9_ReceiverUntouched ==
    (call.op \in {"Variable.isel", "DataArray.isel", "DataArray.__getitem__"})
    => /\ ReceiverNow = call.self
       /\ call.res.ok => Returned.id # call.self.id

\* C9: __getitem__ returned a DataArray with fewer dims and fewer values than
\* its receiver, which has coordinates.
C9_Witness ==
    /\ call.op = "DataArray.__getitem__"
    /\ call.res.ok
    /\ CoordNames(call.self) # << >>
    /\ Len(DimsOf(Returned)) < Len(DimsOf(da))
    /\ da = call.self

\* C10: da.data = value returns exactly when the value has the shape of the
\* data; it then replaces the data and nothing else (the dims stay); when it
\* raises, the receiver is what it was.
C10_DataShapeChecked ==
    (call.op = "DataArray.data=")
    => /\ call.res.ok <=> call.args.value.shape = ShapeOf(call.self)
       /\ ~call.res.ok => da = call.self
       /\ call.res.ok => /\ DataOf(da) = call.args.value
                         /\ DimsOf(da) = DimsOf(call.self)
                         /\ Variable_dims(DataArray_variable(da))
                               = Variable_dims(DataArray_variable(call.self))
                         /\ [da EXCEPT !._variable._data = DataOf(call.self)] = call.self

\* C10: data of the same rank and size but of another shape was refused.
C10_Witness ==
    /\ call.op = "DataArray.data="
    /\ ~call.res.ok
    /\ Len(call.args.value.shape) = LifeRank
    /\ call.args.value.shape = Transposed(ShapeOf(call.self))
    /\ da = call.self

(***************************************************************************)
(* Axis numbers                                                            *)
(***************************************************************************)
IsLookup == call.op = "get_axis_num"
Asked == call.args.dim.names
HasDuplicates(dims) == \E a, b \in DOMAIN dims : a # b /\ dims[a] = dims[b]
Repeated(dims) == {dims[a] : a \in {a \in DOMAIN dims : \E b \in DOMAIN dims : a # b /\ dims[a] = dims[b]}}
\* the axis, counted from 0, of a name that dims has once
PositionOf(dims, d) == (CHOOSE a \in DOMAIN dims : dims[a] = d) - 1

\* C11: a Variable with dims ("x","x") over a 2-D tensor is constructed; on
\* an object with a repeated name in its dims, get_axis_num of a name or of an
\* iterable of one or more names, present or not, raises the error of
\* duplicate dimensions, which names the repeated names (asked for no name at
\* all, it returns the empty tuple); on an object without, get_axis_num(d)
\* returns the position of d in dims, a tuple of positions for an iterable,
\* and raises the error of a name not found, naming the first asked name that
\* is not in dims.
C11_DuplicateDetection ==
    /\ \A d \in DimNames, sh \in [1..2 -> 0..MaxLen] : Variable(<< d, d >>, arange(sh, 0)).ok
    /\ IsLookup =>
          IF Asked = << >>
          THEN call.res = Ok(AxisNums(<< >>))
          ELSE IF HasDuplicates(DimsOf(call.self))
          THEN /\ ~call.res.ok
               /\ call.res.err = "ValueError: cannot handle duplicate dimensions"
               /\ call.res.names = Repeated(DimsOf(call.self))
          ELSE IF Range(Asked) \subseteq Range(DimsOf(call.self))
          THEN /\ call.res.ok
               /\ call.res.val =
                     IF call.args.dim.kind = "name"
                     THEN AxisNum(PositionOf(DimsOf(call.self), Asked[1]))
                     ELSE AxisNums([i \in DOMAIN Asked |-> PositionOf(DimsOf(call.self), Asked[i])])
          ELSE /\ ~call.res.ok
               /\ call.res.err = "ValueError: not found in array dimensions"
               /\ call.res.names =
                     {Asked[MinOf({i \in DOMAIN Asked : Asked[i] \notin Range(DimsOf(call.self))})]}

\* C11: a Variable with dims ("x","x") over a 2-D tensor was asked for the
\* axis of x, and the lookup raised, naming x.
C11_Witness ==
    /\ IsLookup
    /\ call.self.type = "Variable"
    /\ DimsOf(call.self) = << "x", "x" >>
    /\ ShapeOf(call.self) = << MaxLen, MaxLen >>
    /\ call.args.dim = OneName("x")
    /\ ~call.res.ok
    /\ call.res.names = {"x"}

\* C12: Variable.isel on a Variable with a repeated name in its dims raises
\* for every request that names a dimension.
C12_DuplicateDimsRejected ==
    (call.op = "Variable.isel" /\ HasDuplicates(DimsOf(call.self)) /\ Request # EmptyMap)
    => ~call.res.ok

\* C12: isel({"x": 0}) on a Variable with dims ("x","x") returned the element
\* at index 0 along both axes, a Variable without dims.
C12_Returned ==
    /\ call.op = "Variable.isel"
    /\ DimsOf(call.self) = << "x", "x" >>
    /\ Request = ("x" :> PyInt(0))
    /\ call.res.ok
    /\ DimsOf(Returned) = << >>
    /\ DataOf(Returned).vals[<< >>] = DataOf(call.self).vals[<< 0, 0 >>]

(***************************************************************************)
(* The forms of a call of isel                                             *)
(***************************************************************************)
IsKeywordCall == call.op = "isel(**kwargs)"
\* self.isel(m) with the same policy
Positional(m) ==
    IF call.self.type = "DataArray"
    THEN DataArray_isel(call.self, Some(DictArg(m)), FALSE, call.args.missing_dims, EmptyMap)
    ELSE Variable_isel(call.self, Some(DictArg(m)), call.args.missing_dims, EmptyMap)
NoPositional == call.args.pos \in {NoneV, Some(DictArg(EmptyMap))}
BothGiven ==
    /\ ~IsNone(call.args.pos)
    /\ call.args.pos[1].kind = "dict"
    /\ call.args.pos[1].m # EmptyMap
    /\ call.args.kw # EmptyMap
RaisedBoth ==
    /\ ~call.res.ok
    /\ call.res.err = "ValueError: cannot specify both keyword and positional arguments"
\* the keywords that are names of parameters of the isel called
Collisions == (DOMAIN call.args.kw) \cap IselParameters(call.self)

\* C13 as stated: isel(**m), with no or an empty positional mapping, gives
\* what isel(m) gives, whatever the names in m; a non-empty positional mapping
\* with a keyword indexer raises.
C13_AnyMapping ==
    IsKeywordCall =>
        /\ NoPositional => call.res = Positional(call.args.kw)
        /\ BothGiven => RaisedBoth

\* C13: isel(**m), with no or an empty positional mapping, gives what
\* isel(m) gives when no name in m is the name of a parameter of isel; a
\* non-empty positional mapping with a keyword that is not the name of a
\* parameter raises the error of both forms given.
C13_ArgumentForms ==
    (IsKeywordCall /\ Collisions = {}) =>
        /\ NoPositional => call.res = Positional(call.args.kw)
        /\ BothGiven => RaisedBoth

\* C13: a DataArray with coordinates was shortened along x by isel(x=...)
\* after an empty dict; and the call returned.
C13_Witness ==
    /\ IsKeywordCall
    /\ call.self.type = "DataArray"
    /\ CoordNames(call.self) # << >>
    /\ call.args.pos = Some(DictArg(EmptyMap))
    /\ call.args.kw = ("x" :> ButFirst)
    /\ ShapeOf(call.self) = << MaxLen, MaxLen >>
    /\ call.res.ok
    /\ ShapeOf(Returned) # ShapeOf(call.self)

(***************************************************************************)
(* __getitem__ and isel                                                    *)
(***************************************************************************)
IsGetItem == call.op = "DataArray.__getitem__"
Key == call.args.key
\* da.isel(m), with drop=False and missing_dims="raise"
PlainIsel(m) == DataArray_isel(call.self, Some(DictArg(m)), FALSE, "raise", EmptyMap)
\* the dims paired, in order, with the terms of a key of full rank; a name
\* paired twice has the later term
Paired(dims, terms) ==
    [d \in Range(dims) |-> terms[MaxOf({a \in DOMAIN dims : dims[a] = d})]]

\* C14: da[key] raises NotImplementedError for a string key; for any other
\* key that expands to the rank of da it gives what isel gives for the dims
\* paired with the expanded terms, and da[i] gives what da.isel({da.dims[0]: i})
\* gives for an integer i.
C14_GetItemIsIsel ==
    IsGetItem =>
        IF Key.kind = "str"
        THEN /\ ~call.res.ok
             /\ call.res.err = "NotImplementedError: xarray-style indexing not yet implemented"
        ELSE /\ expanded_indexer(Key, Len(ShapeOf(call.self))).ok
                   => call.res = PlainIsel(Paired(DimsOf(call.self),
                                                  expanded_indexer(Key, Len(ShapeOf(call.self))).val))
             /\ (Key.kind = "int" /\ Len(DimsOf(call.self)) >= 1)
                   => call.res = PlainIsel(DimsOf(call.self)[1] :> Key)

\* C14: da[-1] on a DataArray with dims ("x","x") and MaxLen elements along
\* each axis returned an array with both axes in full, where
\* da.isel({"x": -1}) returns one element.
C14_WholeArray ==
    /\ IsGetItem
    /\ Key = Last
    /\ DimsOf(call.self) = << "x", "x" >>
    /\ ShapeOf(call.self) = << MaxLen, MaxLen >>
    /\ call.res.ok
    /\ ShapeOf(Returned) = ShapeOf(call.self)
    /\ PlainIsel("x" :> Last).ok
    /\ ShapeOf(PlainIsel("x" :> Last).val) = << >>

(***************************************************************************)
(* Construction                                                            *)
(***************************************************************************)
IsConstruction == call.op = "DataArray"
Rank == Len(call.args.data.shape)
GivenCoords == call.args.coords
\* the last position at which dims has the name d
LastAxis(dims, d) == MaxOf({a \in DOMAIN dims : dims[a] = d})

\* C15: a DataArray constructed without dims has the names dim_0, dim_1, ...
\* unless coords is a dict with as many entries as the data has axes, whose
\* keys, in their order, are then the dims; constructed with dims, it has
\* the names given, in their order.  Constructed with a sequence of
\* coordinates, its coordinates are named after its dims, and the coordinate
\* of a name is 1-D on that name and holds the values given at the position
\* of the name (the last such position, for a name that dims repeats).
C15_DimensionInference ==
    (IsConstruction /\ call.res.ok) =>
        /\ DimsOf(Returned) =
              IF ~IsNone(call.args.dims) THEN call.args.dims[1]
              ELSE IF GivenCoords.kind = "dict" /\ Len(GivenCoords.keys) = Rank
              THEN GivenCoords.keys
              ELSE SubSeq(SyntheticNames, 1, Rank)
        /\ GivenCoords.kind = "seq" =>
              /\ CoordNames(Returned) = Distinct(DimsOf(Returned))
              /\ \A d \in Range(DimsOf(Returned)) :
                    /\ DimsOf(Coord(Returned, d)) = << d >>
                    /\ DataOf(Coord(Returned, d)) =
                          as_compatible_data(GivenCoords.items[LastAxis(DimsOf(Returned), d)])

\* C15: a 2-D array constructed without dims and with a dict of coordinates
\* "y" and "x", in this order, has the dims ("y", "x").
C15_Witness ==
    /\ IsConstruction
    /\ call.res.ok
    /\ IsNone(call.args.dims)
    /\ Rank = 2
    /\ GivenCoords.kind = "dict"
    /\ GivenCoords.keys = << "y", "x" >>
    /\ DimsOf(Returned) = << "y", "x" >>
    /\ da = Bind(Returned)

\* the dims a construction ends with, by C15
FinalDims ==
    IF ~IsNone(call.args.dims) THEN call.args.dims[1]
    ELSE IF GivenCoords.kind = "dict" /\ Len(GivenCoords.keys) = Rank
    THEN GivenCoords.keys
    ELSE SubSeq(SyntheticNames, 1, Rank)
\* the coordinates given, by name or by position (of two given for one name
\* the later is the coordinate of that name), and the dims and shape of
\* each: a list of labels under a name is 1-D on that name, a tuple
\* (dims, data) has the dims and the shape of the data it gives
GivenKeys ==
    IF GivenCoords.kind = "dict" THEN Range(GivenCoords.keys)
    ELSE IF GivenCoords.kind = "seq"
    THEN {LastAxis(FinalDims, d) : d \in Range(FinalDims)}
    ELSE {}
GivenValue(k) == IF GivenCoords.kind = "dict" THEN GivenCoords.vals[k] ELSE GivenCoords.items[k]
GivenName(k) == IF GivenCoords.kind = "dict" THEN k ELSE FinalDims[k]
GivenDims(k) ==
    IF GivenValue(k).type = "tuple" THEN GivenValue(k).dims ELSE << GivenName(k) >>
GivenShape(k) ==
    IF GivenValue(k).type = "tuple" THEN GivenValue(k).data.shape
    ELSE << Len(GivenValue(k).items) >>
WrongCount == GivenCoords.kind = "seq" /\ Len(GivenCoords.items) # Rank
ForeignDimension ==
    /\ GivenCoords.kind = "dict"
    /\ \E k \in GivenKeys : \E d \in Range(GivenDims(k)) : d \notin Range(FinalDims)
WrongLength ==
    /\ ~WrongCount
    /\ Len(FinalDims) = Rank
    /\ \E k \in GivenKeys :
          \E a \in DOMAIN GivenDims(k) :
              /\ GivenDims(k)[a] \in Range(FinalDims)
              /\ GivenShape(k)[a] # sizes(FinalDims, call.args.data.shape)[GivenDims(k)[a]]
NameNotAString ==
    /\ ~IsNone(call.args.dims)
    /\ \E i \in DOMAIN call.args.dims[1] : call.args.dims[1][i] \in NonStrNames

\* C16: the construction of a DataArray raises and leaves the caller with no
\* instance when coords is a sequence with another number of items than the
\* data has axes (the error carries both numbers), when a coordinate has a
\* dimension that is not among the final dims, when a coordinate and the
\* data differ in length along a dimension they share, or when a name given
\* in dims is not a string.
C16_ConstructionFails ==
    IsConstruction =>
        /\ (WrongCount \/ ForeignDimension \/ WrongLength \/ NameNotAString)
              => /\ ~call.res.ok
                 /\ call.res.val = NoVal
                 /\ da = NoVal
        /\ WrongCount
              => /\ call.res.err
                       = "ValueError: coords is not dict-like, but its items do not match the dimensions"
                 /\ call.res.names = << Len(GivenCoords.items), Rank >>

\* C16: a sequence of two coordinates given for data of one axis was refused,
\* the error carrying the numbers 2 and 1.
C16_Witness ==
    /\ IsConstruction
    /\ WrongCount
    /\ ~call.res.ok
    /\ call.res.names = << 2, 1 >>
    /\ da = NoVal

(***************************************************************************)
(* Terms that are not supported                                            *)
(***************************************************************************)
\* a term that is neither an integer, nor a slice, nor a 0-dimensional scalar
Unsupported(term) == term.kind \in {"list", "ndarray1", "ndarray2", "Variable1"}
AsksUnsupported == IsIsel /\ \E k \in DOMAIN Request : Unsupported(Request[k])
RaisedNotImplemented ==
    /\ ~call.res.ok
    /\ call.res.err \in {"NotImplementedError: Cannot yet index with",
                          "NotImplementedError: fancy indexing is not yet implemented"}

C17_Returned ==
    /\ call.op = "Variable.isel"
    /\ Request = (UnknownDim :> PyList)
    /\ Policy = "ignore"
    /\ call.res.ok
    /\ ShapeOf(Returned) = ShapeOf(call.self)

(***************************************************************************)
(* Expansion of a key                                                      *)
(***************************************************************************)
IsExpand == call.op = "expanded_indexer"
\* the terms of the key: a key that is no tuple is a key of one term
KeyTerms == IF call.args.key.kind = "tuple" THEN call.args.key.items ELSE << call.args.key >>
Placeholders == {i \in DOMAIN KeyTerms : KeyTerms[i] = EllipsisT}
\* the number of terms the i-th term of the key becomes
Width(i) ==
    IF i \notin Placeholders THEN 1
    ELSE IF i = MinOf(Placeholders)
    THEN (IF call.args.ndim + 1 - Len(KeyTerms) > 0
          THEN call.args.ndim + 1 - Len(KeyTerms) ELSE 0)
    ELSE 1
RECURSIVE Before(_)
\* the number of terms the terms before the i-th become
Before(i) == IF i <= 1 THEN 0 ELSE Before(i - 1) + Width(i - 1)
Replaced == Before(Len(KeyTerms) + 1)

\* C18: expanded_indexer(key, n) raises IndexError exactly when the key,
\* its placeholders replaced, has more than n terms; otherwise it returns n
\* terms: each term of the key that is no placeholder, in the order of the
\* key, n + 1 - len(key) full slices (none if that is not positive) in the
\* place of the first placeholder, one full slice in the place of each later
\* placeholder, and full slices from there to the n-th position.  A key that
\* is no tuple is a key of one term.
C18_Expand ==
    IsExpand =>
        /\ call.res.ok <=> Replaced <= call.args.ndim
        /\ ~call.res.ok => call.res.err = "IndexError: too many indices"
        /\ call.res.ok =>
              /\ Len(call.res.val) = call.args.ndim
              /\ \A i \in DOMAIN KeyTerms :
                    \A p \in (Before(i) + 1)..(Before(i) + Width(i)) :
                        call.res.val[p] = IF i \in Placeholders THEN FullSlice ELSE KeyTerms[i]
              /\ \A p \in (Replaced + 1)..call.args.ndim : call.res.val[p] = FullSlice

\* C18: a key of an integer, a placeholder and a slice was expanded to as
\* many terms as there are dimensions, the integer first and the slice last.
C18_Witness ==
    /\ IsExpand
    /\ call.args.key = TupleKey(<< Last, EllipsisT, ButFirst >>)
    /\ call.args.ndim = MaxRank
    /\ call.res.ok
    /\ call.res.val[1] = Last
    /\ call.res.val[MaxRank] = ButFirst

(***************************************************************************)
(* 0-dimensional terms                                                     *)
(***************************************************************************)
\* a 0-d Variable or a 0-d array
IsScalarTerm(term) == term.kind \in {"Variable0", "ndarray0"}
\* i is a position of every axis of v named d
InRange(v, d, i) == \A a \in AxesOf(v, d) : -ShapeOf(v)[a] <= i /\ i < ShapeOf(v)[a]
\* Variable.isel asked for one dimension of the Variable, with a 0-d term
\* that holds a position of it
AsksScalar(d) ==
    /\ call.op = "Variable.isel"
    /\ DOMAIN Request = {d}
    /\ d \in Range(DimsOf(call.self))
    /\ IsScalarTerm(Request[d])
    /\ InRange(call.self, d, Request[d].i)

\* C19: v.isel({d: s}) on a Variable v, with d a dimension of v and s a 0-d
\* Variable or a 0-d array that holds a position i of d, returns what
\* v.isel({d: i}) returns, dims, shape and values, and d is not among the
\* dims of the result.
C19_ScalarUnwrap ==
    \A d \in DimNames :
        AsksScalar(d) =>
            /\ call.res.ok
            /\ call.res = Variable_isel(call.self, Some(DictArg(d :> PyInt(Request[d].i))),
                                        Policy, EmptyMap)
            /\ d \notin Range(DimsOf(Returned))
            /\ ShapeOf(Returned) = AtPositions(ShapeOf(call.self), OtherAxes(call.self, d))

\* C19: a Variable of two axes of MaxLen elements, asked for y with a 0-d
\* Variable holding -1, returned its last column.
C19_Witness ==
    /\ call.op = "Variable.isel"
    /\ Request = ("y" :> Variable0d(-1))
    /\ DimsOf(call.self) = << "x", "y" >>
    /\ ShapeOf(call.self) = << MaxLen, MaxLen >>
    /\ call.res.ok
    /\ DimsOf(Returned) = << "x" >>
    /\ call.res = Variable_isel(call.self, Some(DictArg("y" :> Last)), "raise", EmptyMap)

(***************************************************************************)
(* The terms DataArray.isel and Variable.isel take for basic indexing      *)
(***************************************************************************)
\* a Python int, a NumPy integer scalar, a slice, a 0-d array
BasicKinds == {"int", "np.integer", "slice", "ndarray0"}
AsksBasic == call.op = "DataArray.isel" /\ \A k \in DOMAIN Request : Request[k].kind \in BasicKinds
\* what the Variable of the receiver returns for the request
OfVariable == Variable_isel(DataArray_variable(call.self), call.args.indexers, Policy, EmptyMap)

\* C20: when every term of a request is a Python int, a NumPy integer
\* scalar, a slice or a 0-d array and da.variable.isel(request) returns,
\* da.isel(request) returns too, with the dims of that Variable.
C20_TermRecognition ==
    (AsksBasic /\ OfVariable.ok) =>
        /\ call.res.ok
        /\ DimsOf(Returned) = DimsOf(OfVariable.val)

\* C20: a DataArray asked for x with a NumPy integer scalar raised
\* NotImplementedError for fancy indexing; its Variable returns for the same
\* request, without x.
C20_IntegerScalarRejected ==
    /\ call.op = "DataArray.isel"
    /\ Request = ("x" :> NpInt(0))
    /\ DimsOf(call.self) = << "x", "y" >>
    /\ ShapeOf(call.self) = << MaxLen, MaxLen >>
    /\ OfVariable.ok
    /\ DimsOf(OfVariable.val) = << "y" >>
    /\ ~call.res.ok
    /\ call.res.err = "NotImplementedError: fancy indexing is not yet implemented"

\* a DataArray asked for x with a 0-d array kept x in the dims it computed,
\* its Variable did not, and the call raised
ArrayScalarDisagrees ==
    /\ call.op = "DataArray.isel"
    /\ Request = ("x" :> Array0d(0))
    /\ DimsOf(call.self) = << "x", "y" >>
    /\ OfVariable.ok
    /\ DimsOf(OfVariable.val) = << "y" >>
    /\ NewDims(call.self, Request) = << "x", "y" >>
    /\ ~call.res.ok

(***************************************************************************)
(* Two terms for two dimensions                                            *)
(***************************************************************************)
IsIselTwice == call.op = "isel.isel"
\* the term is an integer that is a position of every axis of v named d, or
\* a slice whose step is not 0
TermInRange(v, d, term) ==
    IF term.kind = "int" THEN InRange(v, d, term.i)
    ELSE term.kind = "slice" /\ term.step # Some(0)
BothInRange ==
    /\ IsIselTwice
    /\ TermInRange(call.self, call.args.d1, call.args.t1)
    /\ TermInRange(call.self, call.args.d2, call.args.t2)
\* equal dims, shape and values; for DataArrays, equal coordinate names,
\* each with equal dims and shape
SameResult(r, q) ==
    /\ r.ok /\ q.ok
    /\ r.val.type = q.val.type
    /\ DimsOf(r.val) = DimsOf(q.val)
    /\ ShapeOf(r.val) = ShapeOf(q.val)
    /\ DataOf(r.val) = DataOf(q.val)
    /\ r.val.type = "DataArray" =>
          /\ Range(CoordNames(r.val)) = Range(CoordNames(q.val))
          /\ \A k \in Range(CoordNames(r.val)) :
                /\ r.val._coords.vars[k]._dims = q.val._coords.vars[k]._dims
                /\ r.val._coords.vars[k]._data.shape = q.val._coords.vars[k]._data.shape

\* C21: for a Variable or DataArray v, two dimensions d1 # d2 of v and
\* terms t1, t2 that are in-range integers or slices,
\* v.isel({d1: t1}).isel({d2: t2}), v.isel({d2: t2}).isel({d1: t1}) and
\* v.isel({d1: t1, d2: t2}) all return, with equal dims, shape and values
\* and, for a DataArray under one drop flag, equal coordinate names with
\* equal dims and shapes.
C21_IselCommutes ==
    BothInRange =>
        /\ SameResult(Returned.d1_d2, Returned.d2_d1)
        /\ SameResult(Returned.d1_d2, Returned.both)

\* C21: a DataArray with coordinates and two axes of MaxLen elements was
\* asked for the last position along x and all but the first along y, with
\* drop: the three ways returned a DataArray with dims (y) of MaxLen - 1
\* elements.
C21_Witness ==
    /\ IsIselTwice
    /\ call.self.type = "DataArray"
    /\ CoordNames(call.self) # << >>
    /\ DimsOf(call.self) = << "x", "y" >>
    /\ ShapeOf(call.self) = << MaxLen, MaxLen >>
    /\ call.args.t1 = Last /\ call.args.t2 = ButFirst /\ call.args.drop
    /\ Returned.d1_d2.ok /\ Returned.d2_d1.ok /\ Returned.both.ok
    /\ DimsOf(Returned.both.val) = << "y" >>
    /\ ShapeOf(Returned.d1_d2.val) = << MaxLen - 1 >>
    /\ "x" \notin Range(CoordNames(Returned.d2_d1.val))

(***************************************************************************)
(* The caller's dict                                                       *)
(***************************************************************************)
IsIselMapping == call.op = "isel(m)"
DictsAfter == Returned.dicts.objs
\* the dict the Variable's key was read from holds what the model of isel
\* on values was left with
ReadFrom == Returned.dicts.res
\* isel on dict objects raises what isel on values raises before the key is
\* read, and warns of the same names
DictsAgree ==
    IsIselMapping =>
        /\ ~ReadFrom.ok => /\ ~Returned.result.ok
                           /\ Returned.result.err = ReadFrom.err
                           /\ Returned.result.names = ReadFrom.names
        /\ (ReadFrom.ok /\ Returned.result.ok) => Returned.result.warned = ReadFrom.warned

\* C22: after v.isel(m, ...) on a Variable or DataArray, under "raise",
\* "warn", "ignore" or another value of missing_dims, returned or raised,
\* the dict m the caller passed has the keys and the values it had before
\* the call, the keys that name no dimension of v among them.
C22_MappingUntouched ==
    IsIselMapping =>
        /\ DictsAfter["caller"] = Request
        /\ DOMAIN DictsAfter["caller"] = DOMAIN Request
        /\ (ReadFrom.ok /\ Policy \in {"warn", "ignore"})
              => DictsAfter[ReadFrom.val] = KnownRequest

\* C22: under "warn", a DataArray asked for a dimension it has and one it
\* has not returned with a warning; the key was read from a copy without
\* the unknown name, and the caller's dict still has it.
C22_Witness ==
    /\ IsIselMapping
    /\ call.self.type = "DataArray"
    /\ Policy = "warn"
    /\ DOMAIN Request = {"x", UnknownDim}
    /\ Returned.result.ok
    /\ Returned.result.warned = {UnknownDim}
    /\ ReadFrom.val = "copy"
    /\ DOMAIN DictsAfter["copy"] = {"x"}
    /\ UnknownDim \in DOMAIN DictsAfter["caller"]

====
